---- MODULE Spec2Model ----
(***************************************************************************)
(* A model of the structured-logging engine of sw-go-logger-lib: the       *)
(* constructor NewLogger, the producer-side Entry, the single consumer     *)
(* goroutine processLogs with its line composer and its sinks, and the     *)
(* status counter registry with its summary GetLogStatusCounters.          *)
(*                                                                         *)
(* Strings are sequences of atoms.  The atom " " is the space character,   *)
(* the atom "\n" the newline; every other atom is a non-empty piece of     *)
(* text without spaces.  Concatenation is \o, so trimming and separator    *)
(* handling are computed on the text as the code computes them.            *)
(***************************************************************************)
EXTENDS Integers, Sequences, FiniteSets, TLC

\* ------------------------------------------------------------- bounds
\* Entry calls the worker goroutines make, in all, in the concurrent workload.
MaxEntries == 2
\* GetLogStatusCounters calls the caller of NewLogger makes.
MaxSummary == 1
\* Largest value the clock returns (a calendar day ends after every second
\* clock value: 1 is the last instant of day 1, 2 the first of day 2).
MaxTime == 2

\* ------------------------------------------------------------- text
SP == " "
NL == "\n"

DigitChars == <<"0", "1", "2", "3", "4", "5", "6", "7", "8", "9">>

Digit(n) == DigitChars[n + 1]

RECURSIVE IntStr(_)
\* strconv-style decimal text of a natural number
IntStr(n) == IF n < 10 THEN <<Digit(n)>> ELSE IntStr(n \div 10) \o <<Digit(n % 10)>>

RECURSIVE TrimRight(_)
\* strings.TrimRight(s, " ")
TrimRight(s) ==
    IF s = <<>> THEN s
    ELSE IF s[Len(s)] = SP THEN TrimRight(SubSeq(s, 1, Len(s) - 1))
    ELSE s

\* ------------------------------------------------------------- enumerations
FORMAT_STATUS == 0
FORMAT_PRE_TEXT == 1
FORMAT_ID == 2
FORMAT_SOURCE == 3
FORMAT_INFO == 4
FORMAT_DATA == 5
FORMAT_ERROR == 6
FORMAT_PROCESSING_TIME == 7
FORMAT_TIMESTAMP == 8
FORMAT_HTTP_REQUEST == 9
FORMAT_PROCESSED_DATA == 10
\* a LogFormat value outside the enumeration, e.g. LogFormat(11)
FORMAT_OTHER == FORMAT_PROCESSED_DATA + 1

LogFormat == FORMAT_STATUS .. FORMAT_OTHER

STATUS_INFO == 0
STATUS_WARN == 1
STATUS_TRACE == 2
STATUS_ERROR == 3
STATUS_FATAL == 4
\* a LogStatus value outside the enumeration, e.g. LogStatus(5)
STATUS_OTHER == STATUS_FATAL + 1

StatusNames == <<"INFO", "WARN", "TRACE", "ERROR", "FATAL">>

\* the map logStatustoString; a missing key yields the empty string
logStatustoString(st) ==
    IF st \in STATUS_INFO .. STATUS_FATAL THEN <<StatusNames[st + 1]>> ELSE <<>>

\* ------------------------------------------------------------- containers
NoRequest == [present |-> FALSE, RemoteAddr |-> <<>>, Method |-> <<>>,
              hasURL |-> FALSE, URL |-> <<>>]

Request(addr, method, url) ==
    [present |-> TRUE, RemoteAddr |-> addr, Method |-> method,
     hasURL |-> TRUE, URL |-> url]

\* The zero value of Container: what a struct literal leaves in the fields
\* it does not name.  Status is an int, so its zero value is STATUS_INFO.
\* statusSet records whether the caller's literal named Status.
\* ProcessedData is "nil", "map" (a map with the keys in dataKeys) or
\* "chan" (a value encoding/json cannot serialize).
ZeroContainer ==
    [Status |-> 0, statusSet |-> FALSE, PreText |-> <<>>, Id |-> <<>>,
     Source |-> <<>>, Info |-> <<>>, Data |-> <<>>, Error |-> <<>>,
     ProcessingTime |-> 0, Timestamp |-> 0, HttpRequest |-> NoRequest,
     ProcessedData |-> "nil", dataKeys |-> {}]

WithStatus(c, st) == [c EXCEPT !.Status = st, !.statusSet = TRUE]

\* ------------------------------------------------------------- time
\* time.Time values are clock ticks 1, 2, ...; 0 is the zero time.
IsZero(t) == t = 0

Day(t) == t \div 2 + 1

TimeOfDay(t) == t % 2

\* timestamp.Format(time.RFC3339): date, "T", time of day
formatTimestamp(t) == IntStr(Day(t)) \o <<"T">> \o IntStr(TimeOfDay(t))

\* timestamp.Format("2006_01_02")
formatDay(t) == IntStr(Day(t))

\* ------------------------------------------------------------- field renderers
\* the words of a message, joined by single spaces
RECURSIVE Words(_)
Words(ws) ==
    IF Len(ws) = 0 THEN <<>>
    ELSE IF Len(ws) = 1 THEN <<ws[1]>>
    ELSE <<ws[1], SP>> \o Words(Tail(ws))

\* getHttpRequest, for a request that has a URL
getHttpRequest(h) ==
    IF h.present THEN h.RemoteAddr \o <<SP>> \o h.Method \o <<SP>> \o h.URL
    ELSE <<>>

\* httpRequest.URL.String() dereferences a nil URL: the goroutine panics
HttpRequestPanics(h) == h.present /\ ~h.hasURL

\* what the Go runtime prints when it ends the process: an unrecovered panic
\* of the consumer goroutine, and the map access check of the runtime
PanicNilDeref == Words(<<"panic:", "runtime", "error:", "invalid", "memory", "address",
                         "or", "nil", "pointer", "dereference">>)
FatalMapRace == Words(<<"fatal", "error:", "concurrent", "map", "read", "and", "map",
                        "write">>)

\* time.Duration is a count of nanoseconds; Microseconds() truncates toward zero
Microseconds(d) == IF d >= 0 THEN d \div 1000 ELSE -((-d) \div 1000)

\* Microsecond counts us below 100 that lie halfway between two hundredths of
\* a millisecond and for which the float64 nearest to us/1000 is below the
\* decimal value, so that %.2f rounds them down (0.015 is stored as
\* 0.01499999999999999944).  The other halfway counts round up.
HalfRoundsDown == {15, 45, 75}

\* getProcessingTime as it would be without the floor of 0.01 ms
getProcessingTimeNoFloor(d) ==
    LET us == IF Microseconds(d) < 0 THEN 0 ELSE Microseconds(d)
        cents == IF us \in HalfRoundsDown THEN us \div 10 ELSE (us + 5) \div 10
    IN  <<"[">> \o IntStr(cents \div 100) \o <<".">>
        \o <<Digit((cents % 100) \div 10), Digit(cents % 10)>>
        \o <<SP, "ms]">>

\* getProcessingTime as its doc comment describes it ("[X ms]", X the number
\* of milliseconds): whole milliseconds, nothing for less than one
getProcessingTimeWhole(d) ==
    LET ms == Microseconds(d) \div 1000
    IN  IF ms < 1 THEN <<>> ELSE <<"[">> \o IntStr(ms) \o <<SP, "ms]">>

\* getProcessingTime: milliseconds with two decimals, floored at 0.01.
\* The value is kept in hundredths of a millisecond; fmt's %.2f rounds the
\* float64 to the nearest hundredth.
getProcessingTime(d) ==
    LET us == Microseconds(d)
        cents == IF us < 10 THEN 1
                 ELSE IF us \in HalfRoundsDown THEN us \div 10
                 ELSE (us + 5) \div 10
    IN  <<"[">> \o IntStr(cents \div 100) \o <<".">>
        \o <<Digit((cents % 100) \div 10), Digit(cents % 10)>>
        \o <<SP, "ms]">>

\* the keys a map payload may hold, in lexical order, and their JSON values
DataKeyNames == <<"\"age\":", "\"name\":">>
DataValues == <<"30", "\"John\"">>

MinOf(S) == CHOOSE x \in S : \A y \in S : x <= y

RECURSIVE MarshalMembers(_)
\* the members of a JSON object, sorted by key, indented by two spaces
MarshalMembers(keys) ==
    IF keys = {} THEN <<>>
    ELSE LET k == MinOf(keys)
             rest == keys \ {k}
         IN  <<SP, SP, DataKeyNames[k], SP, DataValues[k]>>
             \o (IF rest = {} THEN <<>> ELSE <<",">>) \o <<NL>>
             \o MarshalMembers(rest)

\* json.MarshalIndent(processedData, "", "  ") for a serializable payload
MarshalIndent(kind, keys) ==
    IF kind = "nil" THEN <<"null">>
    ELSE IF keys = {} THEN <<"{}">>
    ELSE <<"{", NL>> \o MarshalMembers(keys) \o <<"}">>

\* err.Error() of json.MarshalIndent for a channel payload
MarshalError == Words(<<"json:", "unsupported", "type:", "chan", "int">>)

\* getProcessedData as it would be if a payload that is not there were skipped
getProcessedDataSkipNil(c) ==
    IF c.ProcessedData = "chan" THEN MarshalError
    ELSE IF c.ProcessedData = "nil" THEN <<>>
    ELSE <<">Processed", SP, "Data:", NL>> \o MarshalIndent(c.ProcessedData, c.dataKeys)

\* getProcessedData as it would be if a serialization failure yielded nothing
getProcessedDataDropError(c) ==
    IF c.ProcessedData = "chan" THEN <<>>
    ELSE <<">Processed", SP, "Data:", NL>> \o MarshalIndent(c.ProcessedData, c.dataKeys)

\* getProcessedData
getProcessedData(c) ==
    IF c.ProcessedData = "chan" THEN MarshalError
    ELSE <<">Processed", SP, "Data:", NL>> \o MarshalIndent(c.ProcessedData, c.dataKeys)

\* the switch of processLogs as it would be with a default case that writes
\* a placeholder for an item it does not know
FieldTextUnknownShown(f, c) ==
    CASE f = FORMAT_STATUS -> logStatustoString(c.Status)
      [] f = FORMAT_PRE_TEXT -> c.PreText
      [] f = FORMAT_ID -> c.Id
      [] f = FORMAT_SOURCE -> c.Source
      [] f = FORMAT_INFO -> c.Info
      [] f = FORMAT_DATA -> c.Data
      [] f = FORMAT_ERROR -> c.Error
      [] f = FORMAT_PROCESSING_TIME -> getProcessingTime(c.ProcessingTime)
      [] f = FORMAT_TIMESTAMP -> formatTimestamp(c.Timestamp)
      [] f = FORMAT_HTTP_REQUEST -> getHttpRequest(c.HttpRequest)
      [] f = FORMAT_PROCESSED_DATA -> getProcessedData(c)
      [] OTHER -> <<"?">>

\* The text one format item yields for a container (the switch of processLogs
\* without its side effect on the counters); "" when nothing is appended.
FieldText(f, c) ==
    CASE f = FORMAT_STATUS -> logStatustoString(c.Status)
      [] f = FORMAT_PRE_TEXT -> c.PreText
      [] f = FORMAT_ID -> c.Id
      [] f = FORMAT_SOURCE -> c.Source
      [] f = FORMAT_INFO -> c.Info
      [] f = FORMAT_DATA -> c.Data
      [] f = FORMAT_ERROR -> c.Error
      [] f = FORMAT_PROCESSING_TIME -> getProcessingTime(c.ProcessingTime)
      [] f = FORMAT_TIMESTAMP -> formatTimestamp(c.Timestamp)
      [] f = FORMAT_HTTP_REQUEST -> getHttpRequest(c.HttpRequest)
      [] f = FORMAT_PROCESSED_DATA -> getProcessedData(c)
      [] OTHER -> <<>>

\* result.WriteString(str + " ") under the guard str != ""
WriteToken(buf, str) == IF str = <<>> THEN buf ELSE buf \o str \o <<SP>>

\* ------------------------------------------------------------- state
VARIABLES
    Format,          \* Logger.Format
    Options,         \* Logger.Options
    folder,          \* state of the output folder on disk
    menu,            \* the containers the workers submit
    limit,           \* Entry calls each worker makes, and GetLogStatusCounters
                     \* calls the caller of NewLogger makes
    pc,              \* position of main and of each worker goroutine
    sent,            \* Entry calls made so far by each goroutine
    sending,         \* sends blocked on Logger.LogChan: the goroutine g, the
                     \* number n of its call, the caller's container arg and
                     \* Entry's copy c of it
    now,             \* last value the clock returned
    cpc,             \* position of the consumer goroutine processLogs
    cur,             \* c, the container the consumer holds
    idx,             \* index of the next format item in the inner loop
    result,          \* the strings.Builder of the current iteration
    StatusCounters,  \* Logger.StatusCounters
    files,           \* the files on disk: name -> lines appended
    stdout,          \* the lines written to standard output
    handles,         \* the file handles the process holds open
    accepted,        \* history: the sends LogChan has handed over, in order
    spc,             \* position inside GetLogStatusCounters
    sKeys,           \* keys, the local slice of GetLogStatusCounters
    summaryOut,      \* last value GetLogStatusCounters returned
    nSummary,        \* GetLogStatusCounters calls returned
    sQuiet,          \* history: the running summary call began with nothing
                     \* in flight and nothing was accepted since
    err,             \* the error NewLogger returned
    probed,          \* history: the preflight created and removed its marker
    stderr,          \* what the Go runtime printed when it ended the process
    crashed          \* the process died (unrecovered panic or runtime fatal)

vars == <<Format, Options, folder, menu, limit, pc, sent, sending, now, cpc,
          cur, idx, result, StatusCounters, files, stdout, handles, accepted, spc,
          sKeys, summaryOut, nSummary, sQuiet, err, probed, stderr, crashed>>

Workers == {"workerA", "workerB"}

Goroutines == {"main"} \cup Workers

\* NewLogger has returned an engine to its caller
Constructed == pc["main"] = "idle"

\* ------------------------------------------------------------- file system
\* an output folder path that ends with the path separator, and the same
\* folder named without it
LogDir == <<"logs", "/">>
LogDirBare == <<"logs">>

\* folderPath + name is a file of the configured folder only when folderPath
\* ends with the separator; otherwise it is a file of the folder's parent
\* directory whose name begins with the folder's name
EndsWithSeparator(folderPath) == folderPath # <<>> /\ folderPath[Len(folderPath)] = "/"

\* The state of the directory in which folderPath + name is created.
\* folder is the state of the configured folder: "writable"; "missing" (it
\* does not exist); "stale" (the marker file is already there); "denied" (no
\* write permission); "full" (files can be created but not extended);
\* "readonlyfile" (writable, but the log file of day 1 is there without write
\* permission).  The parent directory exists and is writable.
DirState(folderPath) == IF EndsWithSeparator(folderPath) THEN folder ELSE "writable"

\* the error values of the os package: nil, or a *PathError
NoError == [Op |-> "", Path |-> <<>>, Err |-> "nil"]
PathError(op, path, errno) == [Op |-> op, Path |-> path, Err |-> errno]

\* os.OpenFile(testFilePath, O_WRONLY|O_CREATE|O_EXCL, 0666)
OpenMarker(folderPath) ==
    LET testFilePath == folderPath \o <<"testfile.tmp">>
        ds == DirState(folderPath)
    IN  CASE ds = "denied" -> PathError("open", testFilePath, "EACCES")
          [] ds = "missing" -> PathError("open", testFilePath, "ENOENT")
          [] ds = "stale" -> PathError("open", testFilePath, "EEXIST")
          [] OTHER -> NoError

\* checkWritePermission as it would be if a permission error were returned
\* like every other error
checkWritePermissionStrict(folderPath) ==
    LET e == OpenMarker(folderPath)
    IN  [ok |-> e = NoError, err |-> e, marker |-> e = NoError]

\* checkWritePermission: create testfile.tmp with O_CREATE|O_EXCL, close it
\* and remove it.  marker: the marker file was created (and removed).
checkWritePermission(folderPath) ==
    LET e == OpenMarker(folderPath)
    IN  CASE e = NoError -> [ok |-> TRUE, err |-> NoError, marker |-> TRUE]
          [] e.Err = "EACCES" -> [ok |-> FALSE, err |-> NoError, marker |-> FALSE]
          [] OTHER -> [ok |-> FALSE, err |-> e, marker |-> FALSE]

logFileName(folderPath, c) == folderPath \o formatDay(c.Timestamp) \o <<".log">>

OpenDiag == Words(<<"Failed", "to", "open", "log", "file:", "permission", "denied">>)
WriteDiag == Words(<<"Failed", "to", "write", "to", "log", "file:", "no", "space">>)

\* os.OpenFile(name, O_APPEND|O_CREATE|O_WRONLY): the file exists afterwards
Created(fsys, name) ==
    IF name \in DOMAIN fsys THEN fsys ELSE fsys @@ (name :> <<>>)

\* what becomes of the write of container c's line: "ok", or the step that
\* fails ("open": os.OpenFile, "write": fmt.Fprintln)
SinkOutcome(folderPath, c) ==
    LET ds == DirState(folderPath)
    IN  CASE ds \in {"denied", "missing"} -> "open"
          [] ds = "readonlyfile" /\ Day(c.Timestamp) = 1 -> "open"
          [] ds = "full" -> "write"
          [] OTHER -> "ok"

\* the handles a call of writeLogToFile opens: os.OpenFile yields one unless
\* it fails
Opened(outcome) == IF outcome = "open" THEN 0 ELSE 1

\* the deferred close as it would be if file.Close() were called at the end
\* of the successful path only
deferCloseOnSuccess(outcome) == IF outcome = "ok" THEN 1 ELSE 0

\* the handles `defer file.Close()` closes when writeLogToFile returns: the
\* defer is registered once the open has succeeded and runs on every return
\* after it
deferClose(outcome) == IF outcome = "open" THEN 0 ELSE 1

\* writeLogToFile as it would be if the file were opened without O_APPEND:
\* the write starts at the beginning of the file
writeLogToFileNoAppend(folderPath, message, c) ==
    LET name == logFileName(folderPath, c)
        outcome == SinkOutcome(folderPath, c)
        left == handles + Opened(outcome) - deferClose(outcome)
    IN  CASE outcome = "open" ->
            [files |-> files, stdout |-> Append(stdout, OpenDiag), handles |-> left]
      [] outcome = "write" ->
            [files |-> Created(files, name), stdout |-> Append(stdout, WriteDiag),
             handles |-> left]
      [] OTHER ->
            [files |-> [Created(files, name) EXCEPT
                           ![name] = <<message>> \o (IF @ = <<>> THEN <<>> ELSE Tail(@))],
             stdout |-> stdout, handles |-> left]

\* writeLogToFile: the files, the standard output and the open handles
\* after the call
writeLogToFile(folderPath, message, c) ==
    LET name == logFileName(folderPath, c)
        outcome == SinkOutcome(folderPath, c)
        left == handles + Opened(outcome) - deferClose(outcome)
    IN  CASE outcome = "open" ->
            [files |-> files, stdout |-> Append(stdout, OpenDiag), handles |-> left]
      [] outcome = "write" ->
            [files |-> Created(files, name), stdout |-> Append(stdout, WriteDiag),
             handles |-> left]
      [] OTHER ->
            [files |-> [Created(files, name) EXCEPT ![name] = Append(@, message)],
             stdout |-> stdout, handles |-> left]

\* ------------------------------------------------------------- workloads
\* the bootstrap container of the README's example
firstEntry ==
    WithStatus([ZeroContainer EXCEPT !.Info = Words(<<"Logger", "started">>)], STATUS_INFO)

cInfo ==
    WithStatus([ZeroContainer EXCEPT !.Id = <<"21BTC">>, !.ProcessingTime = 1000000],
               STATUS_INFO)

cError ==
    WithStatus([ZeroContainer EXCEPT !.Id = <<"21BTC">>, !.Error = <<"boom">>,
                                     !.Timestamp = 1],
               STATUS_ERROR)

\* a container whose literal does not name Status (the workers of example_test.go)
cUnset ==
    [ZeroContainer EXCEPT !.PreText = Words(<<"Worker", "A">>), !.Source = <<"Source1">>]

cOther == WithStatus([ZeroContainer EXCEPT !.Data = <<"233">>], STATUS_OTHER)

cBlank == WithStatus(ZeroContainer, STATUS_OTHER)

cTrace ==
    WithStatus([ZeroContainer EXCEPT !.Info = <<"step">>, !.ProcessingTime = 5000,
                                     !.ProcessedData = "map", !.dataKeys = {1, 2}],
               STATUS_TRACE)

\* a server-side request: remote address, method and URL are all there
cServer ==
    WithStatus([ZeroContainer EXCEPT
                   !.PreText = <<"SERVER1">>,
                   !.HttpRequest = Request(<<"192.168.0.1:12345">>, <<"GET">>,
                                           <<"https://example.com">>)],
               STATUS_WARN)

\* a request built by http.NewRequest: RemoteAddr is empty
cClient ==
    WithStatus([ZeroContainer EXCEPT
                   !.HttpRequest = Request(<<>>, <<"GET">>, <<"https://example.com">>),
                   !.ProcessedData = "chan"],
               STATUS_FATAL)

\* a request literal without a URL: &http.Request{Method: "GET"}
cNoURL ==
    WithStatus([ZeroContainer EXCEPT
                   !.HttpRequest = [NoRequest EXCEPT !.present = TRUE,
                                                     !.Method = <<"GET">>]],
               STATUS_INFO)

\* a payload encoding/json cannot serialize, on a container with an ID
cChan ==
    WithStatus([ZeroContainer EXCEPT !.Id = <<"21BTC">>, !.ProcessedData = "chan"],
               STATUS_WARN)

\* an info text that ends with a space of its own ("done ")
cPadded == WithStatus([ZeroContainer EXCEPT !.Info = <<"done", SP>>], STATUS_OTHER)

\* processing times in nanoseconds: negative, below one microsecond, just
\* below and at the floor of 0.01 ms, and around halfway values of %.2f
Durations == {0 - 1000000, 999, 9999, 10000, 14000, 15000, 16000, 25000}

\* a container that carries nothing but a processing time
cTimed(d) == WithStatus([ZeroContainer EXCEPT !.ProcessingTime = d], STATUS_OTHER)

ConcMenu == {cInfo, cError}

AllMenu ==
    {cInfo, cError, cUnset, cOther, cBlank, cTrace, cServer, cClient, cNoURL, cPadded}
    \cup {cTimed(d) : d \in Durations}

\* the format of candidateFour
CounterFormat == <<FORMAT_STATUS, FORMAT_ID>>

ConcFormats == { <<>>, CounterFormat, <<FORMAT_OTHER>> }

\* the format of candidateOne
FullFormat ==
    <<FORMAT_TIMESTAMP, FORMAT_STATUS, FORMAT_PRE_TEXT, FORMAT_HTTP_REQUEST, FORMAT_ID,
      FORMAT_SOURCE, FORMAT_INFO, FORMAT_DATA, FORMAT_ERROR, FORMAT_PROCESSING_TIME,
      FORMAT_PROCESSED_DATA>>

\* the items combined in pairs, in both orders and doubled
PairItems ==
    {FORMAT_STATUS, FORMAT_PRE_TEXT, FORMAT_ID, FORMAT_PROCESSING_TIME,
     FORMAT_HTTP_REQUEST, FORMAT_PROCESSED_DATA, FORMAT_OTHER}

AllFormats ==
    {<<>>, FullFormat}
    \cup {<<f>> : f \in LogFormat}
    \cup {<<f, g>> : f \in PairItems, g \in PairItems}

AllOptions ==
    [OutputToStdout : BOOLEAN, OutputToFile : BOOLEAN, OutputFolderPath : {LogDir}]

BothSinks == [OutputToStdout |-> TRUE, OutputToFile |-> TRUE, OutputFolderPath |-> LogDir]

FileOnly == [BothSinks EXCEPT !.OutputToStdout = FALSE]

\* the zero value of Options: both sinks off
NoSinks == [BothSinks EXCEPT !.OutputToStdout = FALSE, !.OutputToFile = FALSE]

\* both sinks on, the folder named without the trailing separator
BareSinks == [BothSinks EXCEPT !.OutputFolderPath = LogDirBare]

\* sink options and the state of the output folder they meet
SinkSetups ==
    (AllOptions \X {"writable"})
    \cup ({BothSinks, FileOnly} \X {"denied"})
    \cup ({BothSinks} \X {"full"})
    \cup ({BothSinks, NoSinks} \X {"missing", "stale"})

\* folder paths and folder states for the construction and the file sink
PathSetups ==
    ({BothSinks} \X {"writable", "denied", "full", "readonlyfile", "missing", "stale"})
    \cup (AllOptions \X {"writable"})
    \cup ({FileOnly} \X {"denied", "full"})
    \cup ({NoSinks} \X {"missing"})
    \cup ({BareSinks} \X {"writable", "missing"})

\* ------------------------------------------------------------- initial states
\* everything but the construction parameters and the workload
InitRest ==
    /\ pc = [g \in Goroutines |-> IF g = "main" THEN "new" ELSE "idle"]
    /\ sent = [g \in Goroutines |-> 0]
    /\ sending = {}
    /\ now = 1
    /\ cpc = "none"
    /\ cur = ZeroContainer
    /\ idx = 1
    /\ result = <<>>
    /\ StatusCounters = [st \in {} |-> 0]
    /\ files = [name \in {} |-> <<>>]
    /\ stdout = <<>>
    /\ handles = 0
    /\ accepted = <<>>
    /\ spc = "idle"
    /\ sKeys = <<>>
    /\ summaryOut = <<>>
    /\ nSummary = 0
    /\ sQuiet = FALSE
    /\ err = NoError
    /\ probed = FALSE
    /\ stderr = <<>>
    /\ crashed = FALSE

\* concurrent workload: two workers, MaxEntries calls in all, at most one of
\* them workerB's, and one summary; every format on
\* a writable folder with both sinks, and every sink setup with the format
\* of candidateFour
Init ==
    /\ \/ /\ Format \in ConcFormats
          /\ Options = BothSinks
          /\ folder = "writable"
       \/ /\ Format = CounterFormat
          /\ \E su \in SinkSetups : Options = su[1] /\ folder = su[2]
    /\ menu = ConcMenu
    /\ limit = [g \in Goroutines |->
                   CASE g = "workerA" -> MaxEntries [] g = "workerB" -> 1 [] OTHER -> 1]
    /\ InitRest

\* rendering workload: every short format, every kind of container, one call
InitCompose ==
    /\ Format \in AllFormats
    /\ Options = BothSinks
    /\ folder = "writable"
    /\ menu = AllMenu
    /\ limit = [g \in Goroutines |->
                   CASE g = "workerA" -> 1 [] g = "workerB" -> 0 [] OTHER -> MaxSummary]
    /\ InitRest

\* file-sink workload: the format of candidateFour, one worker, every folder
\* path and folder state
InitSinks ==
    /\ Format = CounterFormat
    /\ \E su \in PathSetups : Options = su[1] /\ folder = su[2]
    /\ menu = ConcMenu
    /\ limit = [g \in Goroutines |->
                   CASE g = "workerA" -> MaxEntries [] g = "workerB" -> 0
                     [] OTHER -> MaxSummary]
    /\ InitRest

\* formats with the payload, the timestamp and the request among other items
RecordFormats ==
    { <<FORMAT_STATUS, FORMAT_PROCESSED_DATA, FORMAT_ID>>,
      <<FORMAT_TIMESTAMP, FORMAT_STATUS, FORMAT_ID>>,
      <<FORMAT_STATUS, FORMAT_HTTP_REQUEST, FORMAT_ID>> }

RecordMenu == {cError, cChan, cNoURL}

\* record workload: one worker submits containers with and without a
\* timestamp, with a payload that cannot be serialized, with a request
\* without URL
InitRecords ==
    /\ Format \in RecordFormats
    /\ Options = BothSinks
    /\ folder = "writable"
    /\ menu = RecordMenu
    /\ limit = [g \in Goroutines |->
                   CASE g = "workerA" -> MaxEntries [] g = "workerB" -> 0
                     [] OTHER -> MaxSummary]
    /\ InitRest

\* ------------------------------------------------------------- variable groups
config == <<Format, Options, folder, menu, limit>>
producerVars == <<pc, sent, sending, now>>
consumerVars == <<cpc, cur, idx, result>>
sinkVars == <<files, stdout, handles>>
summaryVars == <<spc, sKeys, summaryOut, nSummary>>

\* ------------------------------------------------------------- producers
\* generateTimestamp: time.Now() never returns less than it returned before
generateTimestamp == now .. MaxTime

\* Entry as it would be with the send moved into a goroutine of its own
\* (`go func() { l.LogChan <- c }()`): the caller does not wait for the hand-over
EntryAsync(g, c) ==
    /\ sent' = [sent EXCEPT ![g] = @ + 1]
    /\ pc' = [pc EXCEPT ![g] = "idle"]
    /\ IF Len(Format) = 0
       THEN UNCHANGED <<sending, now>>
       ELSE \E t \in (IF IsZero(c.Timestamp) THEN generateTimestamp ELSE {c.Timestamp}) :
            /\ now' = IF IsZero(c.Timestamp) THEN t ELSE now
            /\ sending' = sending \cup
                   {[g |-> g, n |-> sent[g] + 1, arg |-> c,
                     c |-> [c EXCEPT !.Timestamp = t]]}

\* Entry as it would be on a channel with a buffer of one container
\* (`make(chan Container, 1)`): the call returns at once while the buffer is free
EntryBuffered(g, c) ==
    /\ sent' = [sent EXCEPT ![g] = @ + 1]
    /\ IF Len(Format) = 0
       THEN /\ pc' = [pc EXCEPT ![g] = "idle"]
            /\ UNCHANGED <<sending, now>>
       ELSE \E t \in (IF IsZero(c.Timestamp) THEN generateTimestamp ELSE {c.Timestamp}) :
            /\ now' = IF IsZero(c.Timestamp) THEN t ELSE now
            /\ sending' = sending \cup
                   {[g |-> g, n |-> sent[g] + 1, arg |-> c,
                     c |-> [c EXCEPT !.Timestamp = t]]}
            /\ pc' = [pc EXCEPT ![g] = IF sending = {} THEN "idle" ELSE "send"]

\* Entry as it would be if it stamped every container, also one that
\* carries a timestamp
EntryAlwaysStamp(g, c) ==
    /\ sent' = [sent EXCEPT ![g] = @ + 1]
    /\ IF Len(Format) = 0
       THEN /\ pc' = [pc EXCEPT ![g] = "idle"]
            /\ UNCHANGED <<sending, now>>
       ELSE \E t \in generateTimestamp :
            /\ now' = t
            /\ sending' = sending \cup
                   {[g |-> g, n |-> sent[g] + 1, arg |-> c,
                     c |-> [c EXCEPT !.Timestamp = t]]}
            /\ pc' = [pc EXCEPT ![g] = "send"]

\* Entry as it would be if an engine without an enabled sink dropped the
\* container
EntryNeedsSink(g, c) ==
    /\ sent' = [sent EXCEPT ![g] = @ + 1]
    /\ IF Len(Format) = 0 \/ (~Options.OutputToStdout /\ ~Options.OutputToFile)
       THEN /\ pc' = [pc EXCEPT ![g] = "idle"]
            /\ UNCHANGED <<sending, now>>
       ELSE \E t \in (IF IsZero(c.Timestamp) THEN generateTimestamp ELSE {c.Timestamp}) :
            /\ now' = (IF IsZero(c.Timestamp) THEN t ELSE now)
            /\ sending' = sending \cup
                   {[g |-> g, n |-> sent[g] + 1, arg |-> c,
                     c |-> [c EXCEPT !.Timestamp = t]]}
            /\ pc' = [pc EXCEPT ![g] = "send"]

\* Entry as it would be without the check for an empty format
EntryUnchecked(g, c) ==
    /\ sent' = [sent EXCEPT ![g] = @ + 1]
    /\ \E t \in (IF IsZero(c.Timestamp) THEN generateTimestamp ELSE {c.Timestamp}) :
        /\ now' = IF IsZero(c.Timestamp) THEN t ELSE now
        /\ sending' = sending \cup
               {[g |-> g, n |-> sent[g] + 1, arg |-> c,
                     c |-> [c EXCEPT !.Timestamp = t]]}
        /\ pc' = [pc EXCEPT ![g] = "send"]

\* Logger.Entry(c) called by goroutine g: return at once when the format is
\* empty; otherwise fill the timestamp and block in the send on LogChan.
Entry(g, c) ==
    /\ sent' = [sent EXCEPT ![g] = @ + 1]
    /\ IF Len(Format) = 0
       THEN /\ pc' = [pc EXCEPT ![g] = "idle"]
            /\ UNCHANGED <<sending, now>>
       ELSE \E t \in (IF IsZero(c.Timestamp) THEN generateTimestamp ELSE {c.Timestamp}) :
            /\ now' = IF IsZero(c.Timestamp) THEN t ELSE now
            /\ sending' = sending \cup
                   {[g |-> g, n |-> sent[g] + 1, arg |-> c,
                     c |-> [c EXCEPT !.Timestamp = t]]}
            /\ pc' = [pc EXCEPT ![g] = "send"]

\* NewLogger up to `go logger.processLogs()`: the preflight runs whatever
\* Options.OutputToFile says; an error other than permission-denied aborts.
NewLogger ==
    /\ ~crashed
    /\ pc["main"] = "new"
    /\ LET r == checkWritePermission(Options.OutputFolderPath) IN
       /\ probed' = r.marker
       /\ err' = r.err
       /\ IF r.err # NoError
          THEN /\ pc' = [pc EXCEPT !["main"] = "failed"]
               /\ UNCHANGED cpc
          ELSE /\ pc' = [pc EXCEPT !["main"] = "boot"]
               /\ cpc' = "recv"
    /\ UNCHANGED <<config, sent, sending, now, cur, idx, result, StatusCounters,
                   sinkVars, accepted, summaryVars, sQuiet, stderr, crashed>>

\* the bootstrap call as it would be if NewLogger did not wait for the
\* hand-over of the first entry (`go logger.Entry(firstEntry)`)
BootstrapEntryAsync ==
    /\ ~crashed
    /\ pc["main"] = "boot"
    /\ EntryAsync("main", firstEntry)
    /\ UNCHANGED <<config, consumerVars, StatusCounters, sinkVars, accepted,
                   summaryVars, sQuiet, crashed>>
    /\ UNCHANGED <<err, probed, stderr>>

\* NewLogger: logger.Entry(firstEntry); NewLogger returns when Entry does
BootstrapEntry ==
    /\ ~crashed
    /\ pc["main"] = "boot"
    /\ Entry("main", firstEntry)
    /\ UNCHANGED <<config, consumerVars, StatusCounters, sinkVars, accepted,
                   summaryVars, sQuiet, crashed>>
    /\ UNCHANGED <<err, probed, stderr>>

\* a worker goroutine calls log.Entry(container)
WorkerEntry(w) ==
    /\ ~crashed
    /\ Constructed
    /\ pc[w] = "idle"
    /\ sent[w] < limit[w]
    /\ sent["workerA"] + sent["workerB"] < MaxEntries
    /\ \E c \in menu : Entry(w, c)
    /\ UNCHANGED <<config, consumerVars, StatusCounters, sinkVars, accepted,
                   summaryVars, sQuiet, crashed>>
    /\ UNCHANGED <<err, probed, stderr>>

\* ------------------------------------------------------------- consumer
\* Recv as it would be with the strings.Builder declared outside the loop:
\* the buffer is not fresh when the next container arrives
RecvKeepBuffer ==
    /\ ~crashed
    /\ cpc = "recv"
    /\ \E m \in sending :
        /\ sending' = sending \ {m}
        /\ pc' = [pc EXCEPT ![m.g] = "idle"]
        /\ cur' = m.c
        /\ accepted' = Append(accepted, m)
    /\ idx' = 1
    /\ cpc' = "compose"
    /\ sQuiet' = FALSE
    /\ UNCHANGED <<config, sent, now, result, StatusCounters, sinkVars, summaryVars,
                   crashed>>
    /\ UNCHANGED <<err, probed, stderr>>

\* `for c := range l.LogChan`: the unbuffered channel hands one blocked send
\* to the consumer, the sender's Entry returns, and the iteration starts
\* with a fresh strings.Builder.
Recv ==
    /\ ~crashed
    /\ cpc = "recv"
    /\ \E m \in sending :
        /\ sending' = sending \ {m}
        /\ pc' = [pc EXCEPT ![m.g] = "idle"]
        /\ cur' = m.c
        /\ accepted' = Append(accepted, m)
    /\ result' = <<>>
    /\ idx' = 1
    /\ cpc' = "compose"
    /\ sQuiet' = FALSE
    /\ UNCHANGED <<config, sent, now, StatusCounters, sinkVars, summaryVars, crashed>>
    /\ UNCHANGED <<err, probed, stderr>>

\* the map assignment of l.StatusCounters[ls]++: the key exists afterwards
mapassign(m, k) == IF k \in DOMAIN m THEN m ELSE m @@ (k :> 0)

RECURSIVE InsertSorted(_, _)
InsertSorted(x, sq) ==
    IF sq = <<>> THEN <<x>>
    ELSE IF x <= Head(sq) THEN <<x>> \o sq
    ELSE <<Head(sq)>> \o InsertSorted(x, Tail(sq))

RECURSIVE SortItems(_)
SortItems(sq) == IF sq = <<>> THEN <<>> ELSE InsertSorted(Head(sq), SortItems(Tail(sq)))

\* the loop as it would be if the fields were rendered in the fixed order of
\* the enumeration, whatever order the format lists them in
formatItemInEnumOrder == SortItems(Format)[idx]

\* formatItem of `for _, formatItem := range l.Format`
formatItem == Format[idx]

\* one pass of `for _, formatItem := range l.Format`.  A FORMAT_STATUS item
\* with a known status enters incrementLogStatusCounter; a request without a
\* URL panics in getHttpRequest; anything else appends its token.
ComposeItem ==
    /\ ~crashed
    /\ cpc = "compose"
    /\ idx <= Len(Format)
    /\ LET f == formatItem IN
       IF f = FORMAT_HTTP_REQUEST /\ HttpRequestPanics(cur.HttpRequest)
       THEN /\ crashed' = TRUE
            /\ stderr' = PanicNilDeref
            /\ UNCHANGED <<cpc, idx, result, StatusCounters>>
       ELSE IF f = FORMAT_STATUS /\ logStatustoString(cur.Status) # <<>>
       THEN /\ StatusCounters' = mapassign(StatusCounters, cur.Status)
            /\ cpc' = "incr"
            /\ UNCHANGED <<idx, result, crashed, stderr>>
       ELSE /\ result' = WriteToken(result, FieldText(f, cur))
            /\ idx' = idx + 1
            /\ UNCHANGED <<cpc, StatusCounters, crashed, stderr>>
    /\ UNCHANGED <<config, producerVars, cur, sinkVars, accepted, summaryVars, sQuiet>>
    /\ UNCHANGED <<err, probed>>

\* incrementLogStatusCounter stores the incremented count, then the status
\* text is appended
incrementLogStatusCounter ==
    /\ ~crashed
    /\ cpc = "incr"
    /\ StatusCounters' = [StatusCounters EXCEPT ![cur.Status] = @ + 1]
    /\ result' = WriteToken(result, logStatustoString(cur.Status))
    /\ idx' = idx + 1
    /\ cpc' = "compose"
    /\ UNCHANGED <<config, producerVars, cur, sinkVars, accepted, summaryVars,
                   sQuiet, crashed>>
    /\ UNCHANGED <<err, probed, stderr>>

\* trimmedResult := strings.TrimRight(result.String(), " ")
trimmedResult == TrimRight(result)

\* the file step as it would be if a failed write ended the consumer loop
WriteFileStopOnError ==
    /\ ~crashed
    /\ cpc = "compose"
    /\ idx > Len(Format)
    /\ IF Options.OutputToFile
       THEN LET w == writeLogToFile(Options.OutputFolderPath, trimmedResult, cur)
            IN  /\ files' = w.files
                /\ stdout' = w.stdout
                /\ handles' = w.handles
                /\ cpc' = IF SinkOutcome(Options.OutputFolderPath, cur) = "ok"
                          THEN "stdout" ELSE "stopped"
       ELSE /\ UNCHANGED <<files, stdout, handles>>
            /\ cpc' = "stdout"
    /\ UNCHANGED <<config, producerVars, cur, idx, result, StatusCounters, accepted,
                   summaryVars, sQuiet, crashed>>
    /\ UNCHANGED <<err, probed, stderr>>

\* `if l.Options.OutputToFile { writeLogToFile(...) }`
WriteFile ==
    /\ ~crashed
    /\ cpc = "compose"
    /\ idx > Len(Format)
    /\ IF Options.OutputToFile
       THEN LET w == writeLogToFile(Options.OutputFolderPath, trimmedResult, cur)
            IN  files' = w.files /\ stdout' = w.stdout /\ handles' = w.handles
       ELSE UNCHANGED <<files, stdout, handles>>
    /\ cpc' = "stdout"
    /\ UNCHANGED <<config, producerVars, cur, idx, result, StatusCounters, accepted,
                   summaryVars, sQuiet, crashed>>
    /\ UNCHANGED <<err, probed, stderr>>

\* WriteStdout as it would be if empty lines were not printed
WriteStdoutSkipEmpty ==
    /\ ~crashed
    /\ cpc = "stdout"
    /\ stdout' = IF Options.OutputToStdout /\ trimmedResult # <<>>
                 THEN Append(stdout, trimmedResult) ELSE stdout
    /\ cpc' = "recv"
    /\ UNCHANGED <<config, producerVars, cur, idx, result, StatusCounters, files,
                   handles, accepted, summaryVars, sQuiet, crashed>>
    /\ UNCHANGED <<err, probed, stderr>>

\* `if l.Options.OutputToStdout { fmt.Println(trimmedResult) }`, then the
\* loop waits for the next container
WriteStdout ==
    /\ ~crashed
    /\ cpc = "stdout"
    /\ stdout' = IF Options.OutputToStdout THEN Append(stdout, trimmedResult) ELSE stdout
    /\ cpc' = "recv"
    /\ UNCHANGED <<config, producerVars, cur, idx, result, StatusCounters, files,
                   handles, accepted, summaryVars, sQuiet, crashed>>
    /\ UNCHANGED <<err, probed, stderr>>

\* ------------------------------------------------------------- summary
RECURSIVE SortInts(_)
\* sort.Ints over the keys collected from the map
SortInts(S) ==
    IF S = {} THEN <<>>
    ELSE LET k == MinOf(S) IN <<k>> \o SortInts(S \ {k})

\* fmt.Sprintf(" [%s: %d]", logStatustoString[status], count)
SummaryItem(st, count) ==
    <<SP, "[">> \o logStatustoString(st) \o <<":", SP>> \o IntStr(count) \o <<"]">>

RECURSIVE SummaryItems(_, _)
SummaryItems(keys, counters) ==
    IF keys = <<>> THEN <<>>
    ELSE LET k == Head(keys)
             count == IF k \in DOMAIN counters THEN counters[k] ELSE 0
         IN  SummaryItem(k, count) \o SummaryItems(Tail(keys), counters)

SummaryHeader == <<"Log", SP, "Level", SP, "Counters:">>

\* nothing submitted is still in flight
Quiescent ==
    /\ sending = {}
    /\ cpc = "recv"

\* GetLogStatusCounters, first half: range over the map, sort the keys
SummaryKeys ==
    /\ ~crashed
    /\ Constructed
    /\ spc = "idle"
    /\ nSummary < limit["main"]
    /\ sKeys' = SortInts(DOMAIN StatusCounters)
    /\ spc' = "counts"
    /\ sQuiet' = Quiescent
    /\ UNCHANGED <<config, producerVars, consumerVars, StatusCounters, sinkVars,
                   accepted, summaryOut, nSummary, crashed>>
    /\ UNCHANGED <<err, probed, stderr>>

\* GetLogStatusCounters, second half: look each key up and format the line
SummaryCounts ==
    /\ ~crashed
    /\ spc = "counts"
    /\ summaryOut' = SummaryHeader \o SummaryItems(sKeys, StatusCounters)
    /\ nSummary' = nSummary + 1
    /\ spc' = "idle"
    /\ UNCHANGED <<config, producerVars, consumerVars, StatusCounters, sinkVars,
                   accepted, sKeys, sQuiet, crashed>>
    /\ UNCHANGED <<err, probed, stderr>>

\* GetLogStatusCounters is about to read, or is reading, the map
SummaryReading ==
    \/ spc = "counts"
    \/ Constructed /\ spc = "idle" /\ nSummary < limit["main"]

\* The map is read while the consumer's map assignment is under way: the Go
\* runtime may detect it and end the process ("concurrent map read and map
\* write"); when it does not, the read above sees the map as it is.
RuntimeFatal ==
    /\ ~crashed
    /\ cpc = "incr"
    /\ SummaryReading
    /\ crashed' = TRUE
    /\ stderr' = FatalMapRace
    /\ UNCHANGED <<config, producerVars, consumerVars, StatusCounters, sinkVars,
                   accepted, summaryVars, sQuiet>>
    /\ UNCHANGED <<err, probed>>

\* ------------------------------------------------------------- specifications
Next ==
    \/ NewLogger
    \/ BootstrapEntry
    \/ \E w \in Workers : WorkerEntry(w)
    \/ Recv
    \/ ComposeItem
    \/ incrementLogStatusCounter
    \/ WriteFile
    \/ WriteStdout
    \/ SummaryKeys
    \/ SummaryCounts
    \/ RuntimeFatal

Spec == Init /\ [][Next]_vars

SpecCompose == InitCompose /\ [][Next]_vars

SpecSinks == InitSinks /\ [][Next]_vars

SpecRecords == InitRecords /\ [][Next]_vars

\* the scheduler gives the consumer goroutine its turn, and every write to a
\* sink returns
ConsumerFair ==
    /\ WF_vars(Recv)
    /\ WF_vars(ComposeItem)
    /\ WF_vars(incrementLogStatusCounter)
    /\ WF_vars(WriteFile)
    /\ WF_vars(WriteStdout)

SpecRecordsFair == InitRecords /\ [][Next]_vars /\ ConsumerFair

\* ------------------------------------------------------------- reference definitions
\* The definitions below state what the claims expect; no action uses them.

\* the non-empty tokens of container c, one per item of the format fmt, in
\* the order of fmt
Tokens(fmt, c) ==
    SelectSeq([i \in 1 .. Len(fmt) |-> FieldText(fmt[i], c)], LAMBDA t : t # <<>>)

RECURSIVE Joined(_)
\* each token followed by one space
Joined(ts) == IF ts = <<>> THEN <<>> ELSE Head(ts) \o <<SP>> \o Joined(Tail(ts))

\* the complete line of container c
Line(c) == TrimRight(Joined(Tokens(Format, c)))

IsDiag(l) == l \in {OpenDiag, WriteDiag}

\* the lines on standard output that are not file diagnostics
LogLines(out) == SelectSeq(out, LAMBDA l : ~IsDiag(l))

\* the consumer is between taking a container and the end of its iteration
Busy == cpc \in {"compose", "incr", "stdout"}

\* accepted containers whose console step is over / whose file step is over
StdoutDue == IF Busy THEN Len(accepted) - 1 ELSE Len(accepted)
FileDue == IF cpc \in {"compose", "incr"} THEN Len(accepted) - 1 ELSE Len(accepted)

\* the lines of the first n accepted containers
LinesOf(n) == [i \in 1 .. n |-> Line(accepted[i].c)]

\* the lines of those of the first n accepted containers filed under name,
\* the ones whose file write fails left out
FiledLinesOf(n, name) ==
    LET mine == SelectSeq(SubSeq(accepted, 1, n),
                          LAMBDA m : /\ logFileName(Options.OutputFolderPath, m.c) = name
                                     /\ SinkOutcome(Options.OutputFolderPath, m.c) = "ok")
    IN  [i \in 1 .. Len(mine) |-> Line(mine[i].c)]

IsPrefix(a, b) == Len(a) <= Len(b) /\ SubSeq(b, 1, Len(a)) = a

FileNames == {logFileName(Options.OutputFolderPath, m.c) : m \in sending}
             \cup {logFileName(Options.OutputFolderPath, accepted[i].c) : i \in DOMAIN accepted}
             \cup DOMAIN files

FileLines(name) == IF name \in DOMAIN files THEN files[name] ELSE <<>>

\* ------------------------------------------------------------- claims
\* C1: Per-producer FIFO.  The containers of one goroutine are accepted by
\* the channel in the order of its Entry calls, and in every enabled sink the
\* lines appear in the order in which the channel accepted their containers.
C1_PerProducerFifo ==
    /\ \A i, j \in DOMAIN accepted :
          (i < j /\ accepted[i].g = accepted[j].g) => accepted[i].n < accepted[j].n
    /\ Options.OutputToStdout => IsPrefix(LogLines(stdout), LinesOf(Len(accepted)))
    /\ Options.OutputToFile =>
          \A name \in FileNames :
              IsPrefix(FileLines(name), FiledLinesOf(Len(accepted), name))

\* one worker's two containers, different lines, both written to both sinks
\* in the order of its calls, after the line of another goroutine
C1_Witness ==
    /\ Len(accepted) = 3
    /\ accepted[2].g = "workerA" /\ accepted[3].g = "workerA"
    /\ Line(accepted[2].c) # Line(accepted[3].c)
    /\ Options.OutputToStdout /\ Options.OutputToFile /\ folder = "writable"
    /\ LogLines(stdout) = LinesOf(3)
    /\ \E name \in DOMAIN files : Len(files[name]) >= 2

\* C2: Exactly-once processing.  Every accepted container whose iteration
\* has passed a sink's step has exactly one line in that sink, empty lines
\* included, when the sink is enabled and the file system does not fail;
\* a disabled sink holds no line.
C2_ExactlyOnce ==
    /\ LogLines(stdout) = (IF Options.OutputToStdout THEN LinesOf(StdoutDue) ELSE <<>>)
    /\ \A name \in FileNames :
          FileLines(name) = (IF Options.OutputToFile
                             THEN FiledLinesOf(FileDue, name) ELSE <<>>)

\* three empty lines, each written once to both sinks
C2_Witness ==
    /\ Format = <<FORMAT_OTHER>>
    /\ Len(accepted) = 3 /\ cpc = "recv" /\ sending = {}
    /\ stdout = <<<<>>, <<>>, <<>>>>
    /\ \E name \in DOMAIN files : Len(files[name]) >= 2

\* C3: Non-interleaved output.  The consumer works on one container at a
\* time: the builder holds tokens of the current container only, every
\* earlier container has been written, and every line in a sink is the
\* complete line of one accepted container.
C3_NonInterleaved ==
    /\ Busy => /\ cur = accepted[Len(accepted)].c
               /\ result = Joined(Tokens(SubSeq(Format, 1, idx - 1), cur))
    /\ Options.OutputToStdout => Len(LogLines(stdout)) >= Len(accepted) - 1
    /\ \A i \in DOMAIN stdout :
          ~IsDiag(stdout[i]) => \E k \in DOMAIN accepted : stdout[i] = Line(accepted[k].c)
    /\ \A name \in DOMAIN files : \A i \in DOMAIN files[name] :
          \E k \in DOMAIN accepted : files[name][i] = Line(accepted[k].c)

\* the consumer composes the line of workerB's container while workerA is
\* blocked in its send, the bootstrap line being complete in both sinks
C3_Witness ==
    /\ cpc = "compose" /\ idx = 2 /\ result # <<>>
    /\ Len(accepted) = 2 /\ accepted[2].g = "workerB"
    /\ \E m \in sending : m.g = "workerA"
    /\ stdout = <<Line(firstEntry)>>
    /\ \E name \in DOMAIN files : files[name] = <<Line(firstEntry)>>

\* C4: Disabled engine.  With an empty format no Entry call, the bootstrap
\* call of NewLogger included, blocks or sends, and nothing is ever accepted,
\* written, created or counted.
C4_DisabledEngine ==
    Len(Format) = 0 =>
        /\ \A g \in Goroutines : pc[g] # "send"
        /\ sending = {}
        /\ accepted = <<>>
        /\ stdout = <<>>
        /\ DOMAIN files = {}
        /\ DOMAIN StatusCounters = {}
        /\ cpc \in {"none", "recv"}

\* the bootstrap call and two worker calls have returned on a disabled engine
C4_Witness ==
    /\ Len(Format) = 0
    /\ sent["main"] = 1
    /\ sent["workerA"] = 1 /\ sent["workerB"] = 1
    /\ \A g \in Goroutines : pc[g] = "idle"

\* C5: Rendering follows the format order.  When the inner loop is over, the
\* builder holds the non-empty tokens of the container in the order of the
\* format, a repeated item contributing its token each time, and the line
\* written is that text trimmed.
C5_FormatOrder ==
    /\ (cpc = "compose" /\ idx > Len(Format)) => result = Joined(Tokens(Format, cur))
    /\ cpc = "stdout" =>
          /\ result = Joined(Tokens(Format, cur))
          /\ files[logFileName(Options.OutputFolderPath, cur)]
                 [Len(files[logFileName(Options.OutputFolderPath, cur)])] = Line(cur)

\* the ID listed before the status, and rendered before it
C5_Witness ==
    /\ Format = <<FORMAT_ID, FORMAT_STATUS>>
    /\ cur = [cInfo EXCEPT !.Timestamp = cur.Timestamp]
    /\ cpc = "recv"
    /\ stdout[Len(stdout)] = <<"21BTC", SP, "INFO">>

\* a text begins or ends with a space, or holds two spaces in a row
HasStraySpace(l) ==
    \/ l # <<>> /\ (l[1] = SP \/ l[Len(l)] = SP)
    \/ \E i \in 1 .. Len(l) - 1 : l[i] = SP /\ l[i + 1] = SP

\* none of the caller's own strings carries a stray space
OwnTextClean(c) ==
    \A t \in {c.PreText, c.Id, c.Source, c.Info, c.Data, c.Error,
              c.HttpRequest.RemoteAddr, c.HttpRequest.Method, c.HttpRequest.URL} :
        ~HasStraySpace(t)

Items(fmt) == {fmt[i] : i \in DOMAIN fmt}

\* C6: No stray separators.  For every format and every container, whatever
\* fields it leaves empty, the composed line does not begin or end with a
\* space and holds no two spaces in a row.  (Stated for containers whose own
\* strings have no such spaces and for formats without the indented JSON
\* payload, so that every space in the line was put there by the engine.)
C6_NoStraySeparators ==
    (cpc = "stdout" /\ OwnTextClean(cur) /\ FORMAT_PROCESSED_DATA \notin Items(Format))
        => ~HasStraySpace(trimmedResult)

KnownStatus == STATUS_INFO .. STATUS_FATAL

CountOf(st) == IF st \in DOMAIN StatusCounters THEN StatusCounters[st] ELSE 0

\* accepted containers of severity st
EventsOf(st) == Cardinality({i \in DOMAIN accepted : accepted[i].c.Status = st})

\* C7: One count per event.  Each processed event adds exactly one to the
\* counter of its severity when the format has the severity item and the
\* severity is known, and nothing otherwise: whenever the consumer waits for
\* the next container, every counter equals the number of events of its
\* severity (zero, the registry being empty, for a format without the item).
C7_OnePerEvent ==
    cpc = "recv" =>
        /\ \A st \in KnownStatus :
              CountOf(st) = (IF FORMAT_STATUS \in Items(Format) THEN EventsOf(st) ELSE 0)
        /\ FORMAT_STATUS \notin Items(Format) => DOMAIN StatusCounters = {}
        /\ DOMAIN StatusCounters \subseteq KnownStatus

\* C8: Unknown or unset severity.  A container whose severity is outside the
\* enumeration, or whose literal did not set it, never has a count stored
\* for it and has no severity name in its line.
C8_UnsetNotCounted ==
    (Busy /\ (~cur.statusSet \/ cur.Status \notin KnownStatus)) =>
        /\ cpc # "incr"
        /\ \A i \in DOMAIN result : \A k \in DOMAIN StatusNames : result[i] # StatusNames[k]

RECURSIVE ExpectedItems(_)
\* the summary items of the severities from st upwards that have events
ExpectedItems(st) ==
    IF st > STATUS_FATAL THEN <<>>
    ELSE (IF FORMAT_STATUS \in Items(Format) /\ EventsOf(st) > 0
          THEN SummaryItem(st, EventsOf(st)) ELSE <<>>)
         \o ExpectedItems(st + 1)

\* C9: Summary.  A GetLogStatusCounters call made once everything submitted
\* has been processed returns the header followed by one item for each
\* severity rendered at least once, in ascending order of the severity, with
\* the number of events rendered with that severity.
C9_SummaryExact ==
    (spc = "idle" /\ nSummary > 0 /\ sQuiet) =>
        summaryOut = SummaryHeader \o ExpectedItems(STATUS_INFO)

\* C10: Summary never reads the registry while the consumer's increment of
\* the registry is under way.
C10_NoRace == ~(cpc = "incr" /\ spc = "counts")

\* the folder a path names, written with its trailing separator
FolderOf(folderPath) ==
    IF EndsWithSeparator(folderPath) THEN folderPath ELSE folderPath \o <<"/">>

\* C11: Construction against a missing folder.  With file output enabled and
\* an output folder that does not exist, NewLogger returns a "no such file"
\* path error naming a file of that folder and no engine: the consumer is not
\* started, the bootstrap container is not submitted, nothing is written
\* and no file is created.
C11_MissingFolderFails ==
    (Options.OutputToFile /\ folder = "missing" /\ pc["main"] # "new") =>
        /\ pc["main"] = "failed"
        /\ err.Err = "ENOENT"
        /\ IsPrefix(FolderOf(Options.OutputFolderPath), err.Path)
        /\ cpc = "none"
        /\ sent["main"] = 0 /\ sending = {} /\ accepted = <<>>
        /\ stdout = <<>>
        /\ DOMAIN files = {}

\* C12: The preflight runs only for the file sink.  With file output
\* disabled NewLogger creates no marker file and does not fail, whatever the
\* state of the output folder.
C12_PreflightOnlyForFile ==
    (~Options.OutputToFile /\ pc["main"] # "new") =>
        /\ ~probed
        /\ pc["main"] # "failed"
        /\ err = NoError

\* C13: The preflight decides the construction.  When the marker file cannot
\* be created for lack of permission, NewLogger returns an engine whose
\* consumer runs and no error; on every other error of the preflight it
\* returns that very error, starts no consumer and submits nothing.
C13_PreflightDecides ==
    pc["main"] # "new" =>
        LET e == OpenMarker(Options.OutputFolderPath) IN
        /\ e.Err = "EACCES" =>
              (pc["main"] # "failed" /\ err = NoError /\ cpc # "none")
        /\ e.Err \notin {"nil", "EACCES"} =>
              (pc["main"] = "failed" /\ err = e /\ cpc = "none"
               /\ sent["main"] = 0 /\ accepted = <<>>)
        /\ (pc["main"] = "failed") <=> (err # NoError)

\* an engine built on a folder without write permission has taken the
\* bootstrap container and a worker's container
C13_Witness ==
    /\ folder = "denied" /\ EndsWithSeparator(Options.OutputFolderPath)
    /\ Constructed /\ err = NoError
    /\ Len(accepted) = 2 /\ cpc = "recv"

\* C14: The bootstrap container comes first.  When NewLogger has returned an
\* enabled engine the consumer has accepted the bootstrap container; it is
\* the first container accepted, no worker's container is submitted before
\* that, and its line is the first log line on standard output and the first
\* line written to a file.
C14_BootstrapFirst ==
    /\ (Constructed /\ Len(Format) > 0) => Len(accepted) >= 1
    /\ \A m \in sending : m.g \in Workers => accepted # <<>>
    /\ accepted # <<>> =>
          LET b == accepted[1] IN
          /\ b.g = "main" /\ b.n = 1
          /\ b.c = [firstEntry EXCEPT !.Timestamp = b.c.Timestamp]
          /\ (Options.OutputToStdout /\ LogLines(stdout) # <<>>) =>
                LogLines(stdout)[1] = Line(b.c)
          /\ (\E name \in DOMAIN files : files[name] # <<>>) =>
                /\ FileLines(logFileName(Options.OutputFolderPath, b.c)) # <<>>
                /\ FileLines(logFileName(Options.OutputFolderPath, b.c))[1] = Line(b.c)

\* the bootstrap line is followed by two workers' lines in both sinks
C14_Witness ==
    /\ Format = CounterFormat /\ Constructed
    /\ Len(accepted) = 3 /\ accepted[2].g = "workerB" /\ accepted[3].g = "workerA"
    /\ Len(stdout) = 3 /\ stdout[1] = <<"INFO">> /\ stdout[2] # stdout[1]
    /\ \E name \in DOMAIN files : Len(files[name]) >= 2 /\ files[name][1] = <<"INFO">>

\* accepted containers among the first n whose file write fails
FailedWrites(n) ==
    {i \in 1 .. n : SinkOutcome(Options.OutputFolderPath, accepted[i].c) # "ok"}

\* C15: A failing file write stays inside the consumer.  Each container
\* whose file write fails is attempted once (one diagnostic, no line in the
\* file), its line still goes to standard output when enabled, its producer
\* is not held or told, the consumer goes on, and the containers after it
\* are written to their files as usual.
C15_SinkFailureContained ==
    (Options.OutputToFile /\ pc["main"] \notin {"new", "failed"}) =>
        /\ \A name \in FileNames : FileLines(name) = FiledLinesOf(FileDue, name)
        /\ Len(SelectSeq(stdout, IsDiag)) = Cardinality(FailedWrites(FileDue))
        /\ Options.OutputToStdout => LogLines(stdout) = LinesOf(StdoutDue)
        /\ \A w \in Workers : pc[w] \in {"idle", "send"}
        /\ cpc \in {"recv", "compose", "incr", "stdout"}

\* the write of the second container failed on a read-only day file; the
\* third container, of the next day, is in its file and all three lines are
\* on standard output
C15_Witness ==
    /\ folder = "readonlyfile" /\ Options = BothSinks
    /\ Len(accepted) = 3 /\ cpc = "recv"
    /\ FailedWrites(3) = {2}
    /\ FileLines(logFileName(LogDir, accepted[3].c)) = <<Line(accepted[1].c), Line(accepted[3].c)>>
    /\ LogLines(stdout) = LinesOf(3)
    /\ Len(stdout) = 4

\* C16: The day file of a line.  Every file written is the day file of the
\* timestamps of the containers whose lines it holds, whatever the order of
\* submission, and lies inside the configured output folder.
C16_OwnDayFile ==
    /\ \A name \in DOMAIN files : IsPrefix(FolderOf(Options.OutputFolderPath), name)
    /\ Options.OutputToFile =>
          \A name \in FileNames : FileLines(name) = FiledLinesOf(FileDue, name)
    /\ \A i, j \in DOMAIN accepted :
          Day(accepted[i].c.Timestamp) # Day(accepted[j].c.Timestamp) =>
              logFileName(Options.OutputFolderPath, accepted[i].c)
                  # logFileName(Options.OutputFolderPath, accepted[j].c)

\* the newline characters in a text
RECURSIVE Newlines(_)
Newlines(l) ==
    IF l = <<>> THEN 0 ELSE (IF Head(l) = NL THEN 1 ELSE 0) + Newlines(Tail(l))

\* the text lines of a file: each message written ends with the newline
\* Fprintln adds, and holds the newlines of the message itself
RECURSIVE TextLines(_)
TextLines(msgs) ==
    IF msgs = <<>> THEN 0 ELSE 1 + Newlines(Head(msgs)) + TextLines(Tail(msgs))

\* C17: One text line per entry.  A day file holds as many newline-terminated
\* lines as containers of that day have been written to it, for every format
\* and every container.
C17_OneLinePerEntry ==
    \A name \in DOMAIN files :
        TextLines(files[name]) = Len(FiledLinesOf(FileDue, name))

DigitValue(ch) == CHOOSE n \in 0 .. 9 : Digit(n) = ch

IsDigit(ch) == \E n \in 0 .. 9 : Digit(n) = ch

RECURSIVE Number(_)
\* the number a sequence of decimal digits denotes
Number(ds) ==
    IF ds = <<>> THEN 0 ELSE 10 * Number(SubSeq(ds, 1, Len(ds) - 1)) + DigitValue(ds[Len(ds)])

\* a text of the form [X.XX ms]: digits, a point, two digits
IsTimeToken(tok) ==
    /\ Len(tok) >= 7
    /\ tok[1] = "[" /\ tok[Len(tok)] = "ms]" /\ tok[Len(tok) - 1] = SP
    /\ IsDigit(tok[Len(tok) - 2]) /\ IsDigit(tok[Len(tok) - 3])
    /\ tok[Len(tok) - 4] = "."
    /\ \A i \in 2 .. Len(tok) - 5 : IsDigit(tok[i])

\* the number of a text [X.XX ms], in hundredths of a millisecond
Hundredths(tok) ==
    100 * Number(SubSeq(tok, 2, Len(tok) - 5))
    + 10 * DigitValue(tok[Len(tok) - 3]) + DigitValue(tok[Len(tok) - 2])

FloorToken == <<"[", "0", ".", "0", "1", SP, "ms]">>

C20_MarkerOnNewLine ==
    LET front == SubSeq(Format, 1, Len(Format) - 1) IN
    (/\ cpc = "stdout"
     /\ Len(Format) >= 2
     /\ Format[Len(Format)] = FORMAT_PROCESSED_DATA
     /\ FORMAT_PROCESSED_DATA \notin Items(front)
     /\ Tokens(front, cur) # <<>>
     /\ cur.ProcessedData # "chan")
        => trimmedResult = TrimRight(Joined(Tokens(front, cur)))
                           \o <<NL, ">Processed", SP, "Data:", NL>>
                           \o MarshalIndent(cur.ProcessedData, cur.dataKeys)

\* the token of a payload that is not there
NullToken == <<">Processed", SP, "Data:", NL, "null">>

\* the places of a text at which the text sub begins
Occurrences(sub, l) ==
    Cardinality({i \in 1 .. Len(l) - Len(sub) + 1 : SubSeq(l, i, i + Len(sub) - 1) = sub})

CountItem(fmt, f) == Cardinality({i \in DOMAIN fmt : fmt[i] = f})

\* C21: A payload that is not there.  For a container without payload every
\* payload item of the format writes the marker >Processed Data:, a newline
\* and null; the item is never skipped.
C21_AbsentPayloadNull ==
    (cpc = "stdout" /\ cur.ProcessedData = "nil") =>
        /\ Occurrences(NullToken, trimmedResult) = CountItem(Format, FORMAT_PROCESSED_DATA)
        /\ Format = <<FORMAT_PROCESSED_DATA>> => trimmedResult = NullToken

\* a container without payload has been written as the marker and null
C21_Witness ==
    /\ cpc = "recv" /\ Format = <<FORMAT_PROCESSED_DATA>>
    /\ Len(accepted) = 2 /\ cur.ProcessedData = "nil"
    /\ stdout = <<NullToken, NullToken>>
    /\ \E name \in DOMAIN files : files[name][Len(files[name])] = NullToken

\* the non-empty tokens of c with the failure text in the payload's place
TokensWithFailure(fmt, c) ==
    SelectSeq([i \in 1 .. Len(fmt) |->
                  IF fmt[i] = FORMAT_PROCESSED_DATA THEN MarshalError
                  ELSE FieldText(fmt[i], c)],
              LAMBDA t : t # <<>>)

\* C22: A payload that cannot be serialized.  Its token is the text of the
\* serialization error, the other tokens of the line are composed around it,
\* the line is written to both sinks, the process does not end for it, and
\* the containers after it are written as usual.
C22_UnserializableContained ==
    FORMAT_PROCESSED_DATA \in Items(Format) =>
        /\ (cpc = "stdout" /\ cur.ProcessedData = "chan") =>
              trimmedResult = TrimRight(Joined(TokensWithFailure(Format, cur)))
        /\ \A i \in 1 .. StdoutDue :
              accepted[i].c.ProcessedData = "chan" =>
                  (i <= Len(stdout) /\ Occurrences(MarshalError, stdout[i]) = 1)
        /\ LogLines(stdout) = LinesOf(StdoutDue)
        /\ \A name \in FileNames : FileLines(name) = FiledLinesOf(FileDue, name)
        /\ crashed => stderr = FatalMapRace

\* the line of a container with a channel as payload, and after it the line
\* of the next container
C22_Witness ==
    /\ Len(accepted) = 3 /\ cpc = "recv"
    /\ accepted[2].c.ProcessedData = "chan"
    /\ accepted[3].arg = cError
    /\ Len(stdout) = 3
    /\ stdout[2] = <<"WARN", SP>> \o MarshalError \o <<SP, "21BTC">>
    /\ stdout[3] = <<"ERROR", SP>> \o NullToken \o <<SP, "21BTC">>

\* the containers goroutine g has had accepted, and its pending sends
AcceptedOf(g) == {i \in DOMAIN accepted : accepted[i].g = g}
PendingOf(g) == {m \in sending : m.g = g}

\* C23: Rendezvous with a lag of at most one.  On an enabled engine an Entry
\* call has returned exactly when the consumer has taken its container;
\* every container accepted before the last one is in every enabled sink and
\* counted, so that at most the last accepted container is unprocessed.
C23_Rendezvous ==
    Len(Format) > 0 =>
        /\ \A g \in Goroutines :
              /\ (pc[g] = "send") <=> (PendingOf(g) # {})
              /\ Cardinality(PendingOf(g)) <= 1
              /\ Cardinality(AcceptedOf(g)) + Cardinality(PendingOf(g)) = sent[g]
        /\ accepted # <<>> =>
              LET n == Len(accepted) - 1 IN
              /\ Options.OutputToStdout =>
                    /\ IsPrefix(LinesOf(n), LogLines(stdout))
                    /\ Len(LogLines(stdout)) <= n + 1
              /\ Options.OutputToFile =>
                    \A name \in FileNames : IsPrefix(FiledLinesOf(n, name), FileLines(name))
              /\ FORMAT_STATUS \in Items(Format) =>
                    \A st \in KnownStatus :
                        CountOf(st) >= Cardinality({i \in 1 .. n : accepted[i].c.Status = st})

\* workerA's Entry has just returned: its container is the one unprocessed,
\* the two before it are in both sinks
C23_Witness ==
    /\ Format = CounterFormat /\ Options = BothSinks /\ folder = "writable"
    /\ Len(accepted) = 3 /\ accepted[3].g = "workerA"
    /\ pc["workerA"] = "idle"
    /\ cpc = "compose" /\ idx = 1
    /\ Len(stdout) = 2

\* the lines all files hold
RECURSIVE TotalLines(_)
TotalLines(names) ==
    IF names = {} THEN 0
    ELSE LET name == CHOOSE x \in names : TRUE
         IN  Len(files[name]) + TotalLines(names \ {name})

\* C24: Liveness.  With the consumer scheduled fairly and every sink write
\* returning, every Entry call that waits in its send returns, and every
\* container the consumer has accepted gets its line on standard output and
\* in a file.
C24_EveryEntryCompletes ==
    /\ \A g \in Goroutines : (pc[g] = "send") ~> (pc[g] = "idle")
    /\ \A k \in 1 .. MaxEntries + 1 :
          (Len(accepted) >= k) ~> (Len(stdout) >= k /\ TotalLines(DOMAIN files) >= k)

\* the consumer goroutines of the process
Consumers == IF cpc = "none" \/ crashed THEN 0 ELSE 1

\* C25: One consumer.  Once NewLogger has started the consumer there is
\* exactly one consumer goroutine, whatever Entry and GetLogStatusCounters
\* calls are made and whatever the containers and the sinks do.
C25_OneConsumer ==
    /\ pc["main"] \in {"new", "failed"} => Consumers = 0
    /\ pc["main"] \notin {"new", "failed"} => Consumers = 1

\* C26: No container ends the consumer loop.  Whatever a container holds,
\* a request without URL and a payload that cannot be serialized included,
\* its composition does not panic, and when the consumer waits for the next
\* container the line of every accepted container is on standard output.
C26_ContentNeverEndsLoop ==
    /\ stderr # PanicNilDeref
    /\ (crashed /\ Busy) => stderr = FatalMapRace
    /\ cpc = "recv" => Len(LogLines(stdout)) = Len(accepted)

\* every send pending or accepted
Handed == sending \cup {accepted[i] : i \in DOMAIN accepted}

\* the timestamp the container of send m is to carry
StampOf(m) == IF IsZero(m.arg.Timestamp) THEN m.c.Timestamp ELSE m.arg.Timestamp

\* C27: Timestamp default-fill.  Entry's copy of the container differs from
\* the caller's value in the timestamp at most, before the hand-over already;
\* a timestamp the caller set is kept, an unset one becomes a reading of the
\* clock made in the call; the consumer renders and files the container
\* under that timestamp, and the caller's value is as it was.
C27_TimestampFill ==
    /\ \A m \in Handed :
          /\ m.arg \in menu \cup {firstEntry}
          /\ m.c = [m.arg EXCEPT !.Timestamp = m.c.Timestamp]
          /\ IF IsZero(m.arg.Timestamp)
             THEN ~IsZero(m.c.Timestamp) /\ m.c.Timestamp <= now
             ELSE m.c.Timestamp = m.arg.Timestamp
    /\ cpc = "stdout" =>
          LET m == accepted[Len(accepted)]
              name == Options.OutputFolderPath \o formatDay(StampOf(m)) \o <<".log">>
          IN  /\ cur = m.c
              /\ Format[1] = FORMAT_TIMESTAMP =>
                    IsPrefix(formatTimestamp(StampOf(m)), trimmedResult)
              /\ name \in DOMAIN files
              /\ files[name][Len(files[name])] = trimmedResult

\* a container that came with the timestamp 1 and, after it, one that came
\* without and was stamped 2, each rendered and filed under its own
C27_Witness ==
    /\ Format = <<FORMAT_TIMESTAMP, FORMAT_STATUS, FORMAT_ID>>
    /\ Len(accepted) = 3 /\ cpc = "recv"
    /\ accepted[2].arg = cError /\ accepted[2].c.Timestamp = 1
    /\ accepted[3].arg = cChan /\ accepted[3].c.Timestamp = 2
    /\ IsPrefix(formatTimestamp(1), stdout[2])
    /\ IsPrefix(formatTimestamp(2), stdout[3])
    /\ Cardinality(DOMAIN files) = 2

\* C28: Lines in the order of the default-filled timestamps.  Of two lines
\* on standard output whose containers were submitted without timestamp, the
\* earlier line does not carry the later timestamp.
C28_FilledTimestampsOrdered ==
    \A i, j \in 1 .. StdoutDue :
        (/\ i < j
         /\ IsZero(accepted[i].arg.Timestamp)
         /\ IsZero(accepted[j].arg.Timestamp))
            => accepted[i].c.Timestamp <= accepted[j].c.Timestamp

RECURSIVE JoinedBy(_)
\* the tokens with one space between each two of them
JoinedBy(ts) ==
    IF ts = <<>> THEN <<>>
    ELSE IF Len(ts) = 1 THEN ts[1]
    ELSE ts[1] \o <<SP>> \o JoinedBy(Tail(ts))

\* C29: Trimming removes separators only.  The line written is the non-empty
\* tokens of the container, each as it is, with exactly one space between
\* each two of them.
C29_TrimOnlySeparators ==
    cpc = "stdout" => trimmedResult = JoinedBy(Tokens(Format, cur))

\* the items of a format that belong to the enumeration
KnownItems(fmt) ==
    SelectSeq(fmt, LAMBDA f : f \in FORMAT_STATUS .. FORMAT_PROCESSED_DATA)

\* C30: Items outside the enumeration.  They are skipped: the line and the
\* counters are those of the format without them; a format of such items
\* only keeps the engine enabled, every container is accepted and written
\* as an empty line, nothing is counted and nothing fails.
C30_UnknownItemsSkipped ==
    LET known == KnownItems(Format) IN
    /\ cpc = "stdout" => trimmedResult = TrimRight(Joined(Tokens(known, cur)))
    /\ cpc = "recv" =>
          \A st \in KnownStatus :
              CountOf(st) = CountItem(known, FORMAT_STATUS) * EventsOf(st)
    /\ (Format # <<>> /\ known = <<>>) =>
          /\ Constructed => Len(accepted) >= 1
          /\ stdout = [i \in 1 .. StdoutDue |-> <<>>]
          /\ DOMAIN StatusCounters = {}
          /\ ~crashed

\* an item outside the enumeration before the ID: the line is the ID
C30_Witness ==
    /\ Format = <<FORMAT_OTHER, FORMAT_ID>>
    /\ cpc = "recv" /\ Len(accepted) = 2
    /\ accepted[2].arg = cInfo
    /\ stdout = <<<<>>, <<"21BTC">>>>
    /\ DOMAIN StatusCounters = {}

\* the registry changes in a step
RegistryChanges == StatusCounters' # StatusCounters

\* the consumer is at a FORMAT_STATUS item, and neither a producer nor the
\* summary moves in the step
SeverityStep ==
    /\ cpc \in {"compose", "incr"}
    /\ idx <= Len(Format)
    /\ Format[idx] = FORMAT_STATUS
    /\ UNCHANGED <<pc, sent, sending, spc, sKeys, summaryOut, nSummary>>

\* no key is removed and no count gets smaller
RegistryGrows ==
    /\ DOMAIN StatusCounters \subseteq DOMAIN StatusCounters'
    /\ \A st \in DOMAIN StatusCounters : StatusCounters'[st] >= StatusCounters[st]

\* C31: Frame of the registry.  StatusCounters changes only in the
\* consumer's step for a FORMAT_STATUS item, never in Entry, NewLogger or
\* GetLogStatusCounters; no count decreases and no key disappears; and
\* whenever the consumer is not inside the statement l.StatusCounters[ls]++,
\* or GetLogStatusCounters is looking its keys up, every key of the registry
\* is one of the five known statuses and has a count of 1 or more.
C31_RegistryFrame ==
    /\ [][RegistryChanges => (SeverityStep /\ RegistryGrows)]_vars
    /\ []((cpc # "incr" \/ spc = "counts") =>
              \A st \in DOMAIN StatusCounters :
                  st \in KnownStatus /\ StatusCounters[st] >= 1)

\* C32: No file handle between containers.  writeLogToFile closes the
\* handle it opened on every path, the failed write included: once the file
\* step is over, and whenever the consumer waits for the next container, the
\* process holds no open file handle.
C32_NoHandleKept == cpc \in {"stdout", "recv"} => handles = 0

\* two containers whose writes failed after the open had succeeded, and the
\* consumer waiting for the third
C32_Witness ==
    /\ folder = "full" /\ Options.OutputToFile
    /\ cpc = "recv" /\ Len(accepted) = 2
    /\ Cardinality(FailedWrites(2)) = 2
    /\ \E name \in DOMAIN files : files[name] = <<>>
    /\ handles = 0

\* C33: Standard output is the console sink's only.  With OutputToStdout off
\* nothing is written to standard output; with it on standard output holds
\* the lines of the processed containers and nothing else, one each, also
\* when file writes fail.
C33_StdoutOnlyLines ==
    /\ ~Options.OutputToStdout => stdout = <<>>
    /\ Options.OutputToStdout =>
          /\ \A i \in DOMAIN stdout : ~IsDiag(stdout[i])
          /\ cpc = "recv" => Len(stdout) = Len(accepted)

\* C34: An existing writable folder always constructs.  NewLogger returns an
\* engine and no error whenever the output folder exists and is writable, a
\* marker file left in it or not.
C34_WritableFolderConstructs ==
    (folder \in {"writable", "stale"} /\ pc["main"] # "new")
        => (pc["main"] # "failed" /\ err = NoError /\ cpc # "none")

\* C35: Counting does not depend on delivery.  Whatever sinks are enabled
\* and whatever becomes of the file write, every Entry call hands its
\* container to the consumer and, when the consumer waits for the next one,
\* each counter is the number of accepted containers of its status for each
\* FORMAT_STATUS item; with both sinks off no line is written to standard
\* output or to a file.
C35_CountingWithoutSinks ==
    /\ \A g \in Goroutines :
          pc[g] \in {"idle", "send"} =>
              sent[g] = Cardinality(AcceptedOf(g)) + Cardinality(PendingOf(g))
    /\ cpc = "recv" =>
          /\ DOMAIN StatusCounters \subseteq KnownStatus
          /\ \A st \in KnownStatus :
                CountOf(st) = CountItem(Format, FORMAT_STATUS) * EventsOf(st)
    /\ (~Options.OutputToStdout /\ ~Options.OutputToFile) =>
          /\ stdout = <<>>
          /\ DOMAIN files = {}

\* both sinks off: the bootstrap container and two more were taken and
\* counted, and nothing was written
C35_Witness ==
    /\ Options = NoSinks
    /\ cpc = "recv" /\ Len(accepted) = MaxEntries + 1
    /\ CountOf(STATUS_INFO) + CountOf(STATUS_ERROR) = MaxEntries + 1
    /\ stdout = <<>> /\ DOMAIN files = {}

\* the lines on standard output, the one due next included, of the accepted
\* containers filed under name
ConsoleLinesFor(name) ==
    LET out == IF cpc = "stdout" THEN Append(stdout, trimmedResult) ELSE stdout
        at == SelectSeq([i \in 1 .. Len(out) |-> i],
                        LAMBDA i : Options.OutputFolderPath
                                   \o formatDay(accepted[i].c.Timestamp) \o <<".log">> = name)
    IN  [k \in 1 .. Len(at) |-> out[at[k]]]

\* C36: Both sinks hold the same lines in the same order.  With both sinks
\* on and no failing file write, the line of a container is in its day file
\* before it is on standard output, and each day file holds, in order, the
\* lines standard output holds (or is about to hold) for the containers of
\* that day, so that the file lines in write order are the console output.
C36_SinksAgree ==
    (/\ Options.OutputToStdout /\ Options.OutputToFile
     /\ DirState(Options.OutputFolderPath) = "writable")
        => /\ TotalLines(DOMAIN files) = Len(stdout) + (IF cpc = "stdout" THEN 1 ELSE 0)
           /\ \A name \in DOMAIN files : files[name] = ConsoleLinesFor(name)

\* three different lines on standard output, the first and the third in the
\* file of one day and the second in the file of another
C36_Witness ==
    /\ Options = BothSinks /\ folder = "writable"
    /\ cpc = "recv" /\ Len(stdout) = 3
    /\ stdout[1] # stdout[2] /\ stdout[2] # stdout[3] /\ stdout[1] # stdout[3]
    /\ \E a, b \in DOMAIN files :
          /\ a # b
          /\ files[a] = <<stdout[1], stdout[3]>>
          /\ files[b] = <<stdout[2]>>

====
